---- MODULE Spec2Model ----
(***************************************************************************)
(* Multi-page document assembly of snail_mail_parser: the Processor        *)
(* (src/processor.py), the classification fallback (src/llm.py), the       *)
(* archive writer (src/output.py) and the archive reader                   *)
(* (src/navigator.py).                                                     *)
(*                                                                         *)
(* Abstractions.  A document id "YYYYMMDD-NNNN" is modelled by its         *)
(* sequence number NNNN (the date prefix is the same function of the clock *)
(* for every id and the sequence number alone already separates ids).      *)
(* Text is modelled as a sequence of tokens [k, p]: k = "ocr" is the text  *)
(* the extractor read from page p, k = "llm" the content the oracle        *)
(* returned for page p, k = "err" the fallback message of llm.py:231,      *)
(* k = "break" the page-break marker of processor.py:164 carrying a page   *)
(* id, k = "merged" the marker of processor.py:340 carrying a source id.   *)
(* String concatenation is sequence concatenation.  The extractor          *)
(* (ocr_image, scan_qr, convert_pdf_to_pil, Image.open) and the oracle     *)
(* (the chat completion) are external: their results are inputs.           *)
(* The extractor is modelled by the interface processor.py:95 uses (text,   *)
(* confidence, preprocessed image); ocr_image in src/ocr.py returns two    *)
(* values only.  Archive writes and folder deletions succeed in Spec.      *)
(* Optional[bool] flags are modelled as BOOLEAN (None is falsy everywhere  *)
(* the code tests the flag).  date_sent and payment are carried unchanged  *)
(* by every operation and are left out of the letter record.               *)
(*                                                                         *)
(* The module also holds the FolderWatcher (src/watcher.py), the loop and  *)
(* the shutdown sequence of main() (src/main.py) and the operator          *)
(* endpoints (src/web_api.py).  main() is modelled from its loop on, or   *)
(* from its test of args.flush on, with the watcher constructed:           *)
(* main.py:26 calls FolderWatcher without the timeout argument that        *)
(* watcher.py:13 requires.                                                 *)
(*                                                                         *)
(* Specifications.  Spec: the operations of the Processor, writes and      *)
(* deletions succeed.  SpecWriteFault: save_output may raise.              *)
(* SpecRmtreeFault: shutil.rmtree may raise.  SpecCodes: judgments with    *)
(* longer code lists.  SpecMain: the watcher, the loop of main() and its   *)
(* shutdown sequence, under weak fairness.  SpecMainFault: the same when   *)
(* the processing of a page may raise.  SpecOperator: the intake           *)
(* Processor next to the Processor of the operator endpoints.  SpecStart:  *)
(* main() from the test of the --flush argument on.                        *)
(***************************************************************************)
EXTENDS Naturals, Sequences, FiniteSets, TLC

\* the Processor of main.py, the archive, and the history of its operations
VARIABLES doc_seq, open_documents, archive, pages, save_calls, last

\* the scan directory, the FolderWatcher, the queue and the position of main()
VARIABLES scan_files, known_files, sessions, queue, handed, pc

\* the Processor of web_api.py and the last response of an operator endpoint
VARIABLES api_open_documents, api_reply

main_vars == <<scan_files, known_files, sessions, queue, handed, pc,
               api_open_documents, api_reply>>

vars == <<doc_seq, open_documents, archive, pages, save_calls, last,
          scan_files, known_files, sessions, queue, handed, pc,
          api_open_documents, api_reply>>

\* ---------------------------------------------------------------- bounds
\* number of page submissions in one run
MaxPages == 2

\* number of sources an entry may hold already when a merge-external whose
\* folder deletion fails is applied to it (the source stays in the archive,
\* so such a merge can be repeated without end)
MaxMerged == 1

\* ---------------------------------------------------------------- values
\* belongs_to_open_doc_id = None
NoId == 0

\* sender names the oracle may return (the fallback adds "Unknown")
Senders == {"A&B"}

\* code lists the extractor or the oracle may return
QrChoices == {<<>>, <<"q1">>}

\* ids an oracle response or an operator request may name
OracleIds == 0..MaxPages

\* values of the id field of an oracle response: never the candidate id's
\* business, so a value that is no document id and one that may be one
OracleOwnIds == {0, MaxPages}

\* the scan directory, as the directory part of an artifact path
ScanDir == <<"scan_dir", 0>>

Tok(k, p) == [k |-> k, p |-> p]

\* ---------------------------------------------------------------- llm.py
\* LetterLLMResponse
Letter(id, sender, subject, type, content, qr, explicit, complete, belongs) ==
    [id |-> id, sender |-> sender, subject |-> subject, type |-> type,
     content |-> content, qr_payloads |-> qr,
     is_multipage_explicit |-> explicit,
     is_information_complete |-> complete,
     belongs_to_open_doc_id |-> belongs]

\* the structured results the oracle may produce for page n
OracleResults(n) ==
    { [ok |-> TRUE,
       parsed |-> Letter(i, s, Tok("subj", n), "letter", <<Tok("llm", n)>>,
                         q, e, c, b)] :
        i \in OracleOwnIds, s \in Senders, q \in QrChoices,
        e \in BOOLEAN, c \in BOOLEAN, b \in OracleIds }
    \cup
    \* transport error, refusal, missing or invalid parsed result
    { [ok |-> FALSE,
       parsed |-> Letter(0, "", Tok("subj", 0), "letter", <<>>, <<>>,
                         FALSE, FALSE, NoId)] }

\* a fallback that reports the page incomplete
FallbackResponse_Incomplete(doc_id, qr_payloads) ==
    Letter(doc_id, "Unknown", Tok("LLM/Validation Error", 0), "Error",
           <<Tok("err", 0)>>, qr_payloads, FALSE, FALSE, NoId)

\* the except-branch of classify_document
FallbackResponse(doc_id, qr_payloads) ==
    Letter(doc_id, "Unknown", Tok("LLM/Validation Error", 0), "Error",
           <<Tok("err", 0)>>, qr_payloads, FALSE, TRUE, NoId)

\* the oracle's id is kept
ForcedId_OracleId(result, doc_id) == result

\* the try-branch of classify_document: the oracle's id is overwritten
ForcedId(result, doc_id) == [result EXCEPT !.id = doc_id]

classify_document(qr_payloads, doc_id, oracle) ==
    IF oracle.ok THEN ForcedId(oracle.parsed, doc_id)
    ELSE FallbackResponse(doc_id, qr_payloads)

\* re.sub(r'[^\w\s-]', '', name), on the sender names of the model
StripSpecial(name) ==
    IF name = "A&B" THEN "AB" ELSE name

_sanitize_foldername_llm(name) ==
    IF name = "" THEN "UnknownSender_LLMLog" ELSE StripSpecial(name)

\* ---------------------------------------------------------------- output.py
_sanitize_foldername(name) ==
    IF name = "" THEN "UnknownSender" ELSE StripSpecial(name)

\* a document folder that has just been created by mkdir
EmptyFolder == [yaml |-> <<>>, original_scans |-> {}, llm_logs |-> FALSE]

Folder(fs, key) == IF key \in DOMAIN fs THEN fs[key] ELSE EmptyFolder

\* Path.exists() of an artifact
ItemExists(fs, item) ==
    \/ item.dir = ScanDir
    \/ /\ item.dir \in DOMAIN fs
       /\ item.name \in fs[item.dir].original_scans

WriteFolder(fs, key, folder) ==
    [k \in DOMAIN fs \cup {key} |-> IF k = key THEN folder ELSE fs[k]]

\* _log_llm_interaction: output_dir/<sender>/<doc_id>/llm_interaction_logs
_log_llm_interaction(fs, doc_id, sender) ==
    LET key == <<_sanitize_foldername_llm(sender), doc_id>>
    IN  WriteFolder(fs, key, [Folder(fs, key) EXCEPT !.llm_logs = TRUE])

\* save_output: output_dir/<sender>/<letter.id>/ gets the copies of the
\* artifacts that still exist and the YAML of the letter
save_output(fs, letter, original_items) ==
    LET key == <<_sanitize_foldername(letter.sender), letter.id>>
        old == Folder(fs, key)
        copied == { original_items[i].name : i \in
                      { j \in 1..Len(original_items) :
                          ItemExists(fs, original_items[j]) } }
    IN  WriteFolder(fs, key,
            [old EXCEPT !.yaml = <<letter>>,
                        !.original_scans = old.original_scans \cup copied])

\* ---------------------------------------------------------------- navigator.py
_get_doc_path(fs, sender_name, doc_id) == <<sender_name, doc_id>> \in DOMAIN fs

\* <<>> is None
get_letter_details_yaml(fs, sender_name, doc_id) ==
    IF _get_doc_path(fs, sender_name, doc_id)
    THEN fs[<<sender_name, doc_id>>].yaml
    ELSE <<>>

\* sorted(...) of a set of file names
RECURSIVE SortedSeq(_)
SortedSeq(S) ==
    IF S = {} THEN <<>>
    ELSE LET m == CHOOSE x \in S : \A y \in S : x <= y
         IN  <<m>> \o SortedSeq(S \ {m})

\* get_letters_by_sender: the names of the subfolders of the sender's folder
get_letters_by_sender(fs, sender_name) ==
    SortedSeq({ key[2] : key \in { k \in DOMAIN fs : k[1] = sender_name } })

\* get_letter_original_scans: the paths of the files under original_scans
get_letter_original_scans(fs, sender_name, doc_id) ==
    IF _get_doc_path(fs, sender_name, doc_id)
    THEN LET names == SortedSeq(fs[<<sender_name, doc_id>>].original_scans)
         IN  [i \in 1..Len(names) |->
                 [name |-> names[i], dir |-> <<sender_name, doc_id>>]]
    ELSE <<>>

\* shutil.rmtree of a document folder
rmtree(fs, key) == [k \in DOMAIN fs \ {key} |-> fs[k]]

\* ---------------------------------------------------------------- processor.py
\* the sequence starts again with every call
get_new_doc_id_Restarts(seq) == 1

\* the counter is not advanced
get_new_doc_id_NoIncrement(seq) == seq

\* Processor.get_new_doc_id
get_new_doc_id(seq) == seq + 1

\* for qr in new: if qr not in existing: existing.append(qr)
RECURSIVE AppendNewCodes(_, _)
AppendNewCodes(existing, new) ==
    IF new = <<>> THEN existing
    ELSE AppendNewCodes(
            IF \E i \in 1..Len(existing) : existing[i] = Head(new)
            THEN existing ELSE Append(existing, Head(new)),
            Tail(new))

\* a page that reports complete information completes the entry
MergedCompleteness_Either(existing_complete, page_complete) ==
    existing_complete \/ page_complete

\* the page's report is ignored
MergedCompleteness_KeepsExisting(existing_complete, page_complete) ==
    existing_complete

\* the page's flag replaces the entry's
MergedCompleteness_PageDecides(existing_complete, page_complete) ==
    page_complete

\* if not llm_response.is_information_complete: existing... = False
MergedCompleteness(existing_complete, page_complete) ==
    IF ~page_complete THEN FALSE ELSE existing_complete

\* the entry takes the subject and the explicit flag of the merged page
MergePage_TakesPageHeader(entry, llm_response, items, preprocessed) ==
    [letter_data |->
        [entry.letter_data EXCEPT
            !.subject = llm_response.subject,
            !.is_multipage_explicit = llm_response.is_multipage_explicit,
            !.content = @ \o <<Tok("break", llm_response.id)>>
                          \o llm_response.content,
            !.qr_payloads = AppendNewCodes(@, llm_response.qr_payloads),
            !.is_information_complete =
                MergedCompleteness(@, llm_response.is_information_complete)],
     items_to_save |-> entry.items_to_save \o items,
     preprocessed_ocr_images |-> entry.preprocessed_ocr_images \o preprocessed]

\* the page's artifacts are put in front of the entry's
MergePage_ArtifactsInFront(entry, llm_response, items, preprocessed) ==
    [letter_data |->
        [entry.letter_data EXCEPT
            !.content = @ \o <<Tok("break", llm_response.id)>>
                          \o llm_response.content,
            !.qr_payloads = AppendNewCodes(@, llm_response.qr_payloads),
            !.is_information_complete =
                MergedCompleteness(@, llm_response.is_information_complete)],
     items_to_save |-> items \o entry.items_to_save,
     preprocessed_ocr_images |-> entry.preprocessed_ocr_images \o preprocessed]

\* the merge of a page into an open entry (processor.py:147-175)
MergePage(entry, llm_response, items, preprocessed) ==
    [letter_data |->
        [entry.letter_data EXCEPT
            !.content = @ \o <<Tok("break", llm_response.id)>>
                          \o llm_response.content,
            !.qr_payloads = AppendNewCodes(@, llm_response.qr_payloads),
            !.is_information_complete =
                MergedCompleteness(@, llm_response.is_information_complete)],
     items_to_save |-> entry.items_to_save \o items,
     preprocessed_ocr_images |-> entry.preprocessed_ocr_images \o preprocessed]

\* llm_response.belongs_to_open_doc_id and ... in self.open_documents
ContinuesOpen(od, llm_response) ==
    /\ llm_response.belongs_to_open_doc_id # NoId
    /\ llm_response.belongs_to_open_doc_id \in DOMAIN od

\* the branch that opens a document is never taken
OpensNew_Never(llm_response) == FALSE

\* the explicit-multipage test is missing
OpensNew_IncompleteOnly(llm_response) ==
    ~llm_response.is_information_complete

\* the negation of the completeness test is missing
OpensNew_LostNegation(llm_response) ==
    \/ llm_response.is_information_complete
    \/ llm_response.is_multipage_explicit

\* elif not llm_response.is_information_complete or ...is_multipage_explicit
OpensNew(llm_response) ==
    \/ ~llm_response.is_information_complete
    \/ llm_response.is_multipage_explicit

\* self.open_documents[id] = entry
PutEntry(od, id, entry) ==
    [k \in DOMAIN od \cup {id} |-> IF k = id THEN entry ELSE od[k]]

\* the entry is not deleted
DelEntry_KeepsEntry(od, id) == od

\* the whole ledger is cleared
DelEntry_Clears(od, id) == <<>>

\* del self.open_documents[id]
DelEntry(od, id) == [k \in DOMAIN od \ {id} |-> od[k]]

\* one more save_output call for letter id
CountSave(sc, id) == [sc EXCEPT ![id] = @ + 1]

\* the flag is not forced
ForcedComplete_Unforced(letter) == letter

\* data_to_save.is_information_complete = True
ForcedComplete(letter) == [letter EXCEPT !.is_information_complete = TRUE]

NoSource == <<"", 0>>

\* no operator endpoint has answered yet
NoReply == [op |-> "", status |-> 0, body |-> <<>>]

\* the record of the operation that completed last: its name, the id it
\* acted on (the candidate id of a page, the id a force-complete was given,
\* the target of a successful merge-external; a merge-external that fails
\* acted on no id), the branch
\* a page took, the judgment of the page (the open document it names, its
\* flags, its codes), whether its classification failed,
\* the value returned, the ids flush-all closed, the source a merge-external
\* consumed (for a page: the marker of a submission that yields nothing)
LastOp(op, id, branch, llm_response, failed, ret, ids, source) ==
    [op |-> op, id |-> id, branch |-> branch,
     belongs |-> llm_response.belongs_to_open_doc_id,
     complete |-> llm_response.is_information_complete,
     explicit |-> llm_response.is_multipage_explicit,
     codes |-> llm_response.qr_payloads,
     failed |-> failed, ret |-> ret, ids |-> ids, source |-> source]

NoJudgment ==
    [belongs_to_open_doc_id |-> NoId, is_information_complete |-> FALSE,
     is_multipage_explicit |-> FALSE, qr_payloads |-> <<>>]

\* ---------------------------------------------------------------- state
Init ==
    /\ doc_seq = 0
    /\ open_documents = <<>>
    /\ archive = <<>>
    /\ pages = <<>>
    /\ save_calls = [i \in OracleIds |-> 0]
    /\ last = LastOp("init", 0, "", NoJudgment, FALSE, TRUE, {}, NoSource)
    /\ scan_files = {}
    /\ known_files = {}
    /\ sessions = {}
    /\ queue = <<>>
    /\ handed = <<>>
    /\ pc = "loop"
    /\ api_open_documents = <<>>
    /\ api_reply = NoReply

\* what the extraction of a submission yields: nothing when the file cannot
\* be opened or gives no image, or when the page has neither text nor codes
NothingExtracted(readable, has_text, qr_payloads) ==
    \/ ~readable
    \/ ~has_text /\ qr_payloads = <<>>

\* the marker of a submission that yields nothing, in the source field of
\* the record of the last operation
Extracted(readable, has_text, qr_payloads) ==
    IF NothingExtracted(readable, has_text, qr_payloads)
    THEN <<"nothing", 0>> ELSE NoSource

\* only an unreadable file is dropped; the test for an empty page is missing
IsDropped_UnreadableOnly(readable, has_text, qr_payloads) == ~readable

\* the early returns of process_document_pages (processor.py:73, 82, 86
\* and 117-119)
IsDropped(readable, has_text, qr_payloads) ==
    \/ ~readable
    \/ ~has_text /\ qr_payloads = <<>>

\* process_document_pages returning before an id is assigned
Dropped(extracted) ==
    /\ pages' = Append(pages, 0)
    /\ last' = LastOp("page", 0, "drop", NoJudgment, FALSE, TRUE, {}, extracted)
    /\ UNCHANGED <<doc_seq, open_documents, archive, save_calls>>

\* process_document_pages from the id assignment on (processor.py:124-226),
\* for the codes scanned from the page and the result of the oracle
Classified(qr_payloads, oracle, extracted) ==
    LET n == Len(pages) + 1
        candidate_page_id == get_new_doc_id(doc_seq)
        items == <<[name |-> n, dir |-> ScanDir]>>
        preprocessed == <<n>>
        llm_response == classify_document(qr_payloads, candidate_page_id, oracle)
        logged == _log_llm_interaction(archive, candidate_page_id,
                                       llm_response.sender)
        existing_doc_id == llm_response.belongs_to_open_doc_id
    IN  /\ doc_seq' = candidate_page_id
        /\ pages' = Append(pages, candidate_page_id)
        /\ IF ContinuesOpen(open_documents, llm_response)
           THEN LET merged == MergePage(open_documents[existing_doc_id],
                                   llm_response, items, preprocessed)
                IN  IF merged.letter_data.is_information_complete
                    THEN /\ archive' = save_output(logged,
                                merged.letter_data, merged.items_to_save)
                         /\ save_calls' = CountSave(save_calls,
                                             merged.letter_data.id)
                         /\ open_documents' = DelEntry(
                                PutEntry(open_documents, existing_doc_id, merged),
                                existing_doc_id)
                         /\ last' = LastOp("page", candidate_page_id,
                                "merge_close", llm_response, ~oracle.ok,
                                TRUE, {}, extracted)
                    ELSE /\ archive' = logged
                         /\ save_calls' = save_calls
                         /\ open_documents' = PutEntry(open_documents,
                                                existing_doc_id, merged)
                         /\ last' = LastOp("page", candidate_page_id,
                                "merge_open", llm_response, ~oracle.ok,
                                TRUE, {}, extracted)
           ELSE IF OpensNew(llm_response)
           THEN /\ archive' = logged
                /\ save_calls' = save_calls
                /\ open_documents' = PutEntry(open_documents,
                        llm_response.id,
                        [letter_data |-> llm_response,
                         items_to_save |-> items,
                         preprocessed_ocr_images |-> preprocessed])
                /\ last' = LastOp("page", candidate_page_id, "open",
                        llm_response, ~oracle.ok, TRUE, {}, extracted)
           ELSE /\ archive' = save_output(logged, llm_response, items)
                /\ save_calls' = CountSave(save_calls, llm_response.id)
                /\ open_documents' = open_documents
                /\ last' = LastOp("page", candidate_page_id, "standalone",
                        llm_response, ~oracle.ok, TRUE, {}, extracted)

\* process_document_pages of one submission, for the code lists the
\* extractor may scan and the results the oracle may produce
process_document_pages(codes, oracles) ==
    \E readable \in BOOLEAN, has_text \in BOOLEAN, qr_payloads \in codes :
        IF IsDropped(readable, has_text, qr_payloads)
        THEN Dropped(Extracted(readable, has_text, qr_payloads))
        ELSE \E oracle \in oracles :
                Classified(qr_payloads, oracle,
                           Extracted(readable, has_text, qr_payloads))

\* a submission that process_document_pages drops
DropPage ==
    /\ Len(pages) < MaxPages
    /\ \E readable \in BOOLEAN, has_text \in BOOLEAN, qr_payloads \in QrChoices :
          /\ IsDropped(readable, has_text, qr_payloads)
          /\ Dropped(Extracted(readable, has_text, qr_payloads))
    /\ UNCHANGED main_vars

\* a submission that process_document_pages classifies
ProcessPage ==
    /\ Len(pages) < MaxPages
    /\ \E readable \in BOOLEAN, has_text \in BOOLEAN, qr_payloads \in QrChoices :
          /\ ~IsDropped(readable, has_text, qr_payloads)
          /\ \E oracle \in OracleResults(Len(pages) + 1) :
                Classified(qr_payloads, oracle,
                           Extracted(readable, has_text, qr_payloads))
    /\ UNCHANGED main_vars

\* the loop body of flush_open_documents, over the keys in dict order
\* (insertion order, which is the order of the ids)
RECURSIVE FlushArchive(_, _, _)
FlushArchive(fs, od, ids) ==
    IF ids = {} THEN fs
    ELSE LET doc_id == CHOOSE x \in ids : \A y \in ids : x <= y
             entry == od[doc_id]
         IN  FlushArchive(
                 save_output(fs, ForcedComplete(entry.letter_data),
                             entry.items_to_save),
                 od, ids \ {doc_id})

RECURSIVE FlushCalls(_, _, _)
FlushCalls(sc, od, ids) ==
    IF ids = {} THEN sc
    ELSE LET doc_id == CHOOSE x \in ids : \A y \in ids : x <= y
         IN  FlushCalls(CountSave(sc, od[doc_id].letter_data.id), od,
                        ids \ {doc_id})

RECURSIVE FlushLedger(_, _)
FlushLedger(od, ids) ==
    IF ids = {} THEN od
    ELSE LET doc_id == CHOOSE x \in ids : \A y \in ids : x <= y
         IN  FlushLedger(DelEntry(od, doc_id), ids \ {doc_id})

\* the effect of flush_open_documents on the Processor
Flushed ==
    /\ archive' = FlushArchive(archive, open_documents, DOMAIN open_documents)
    /\ save_calls' = FlushCalls(save_calls, open_documents, DOMAIN open_documents)
    /\ open_documents' = FlushLedger(open_documents, DOMAIN open_documents)
    /\ last' = LastOp("flush", 0, "", NoJudgment, FALSE, TRUE,
                      DOMAIN open_documents, NoSource)
    /\ UNCHANGED <<doc_seq, pages>>

\* Processor.flush_open_documents
flush_open_documents ==
    /\ Flushed
    /\ UNCHANGED main_vars

\* Processor.force_complete_open_document
force_complete_open_document ==
    /\ \E doc_id \in OracleIds :
        /\ IF doc_id \in DOMAIN open_documents
           THEN LET entry == open_documents[doc_id]
                IN  /\ archive' = save_output(archive,
                            ForcedComplete(entry.letter_data), entry.items_to_save)
                    /\ save_calls' = CountSave(save_calls, entry.letter_data.id)
                    /\ open_documents' = DelEntry(open_documents, doc_id)
                    /\ last' = LastOp("force", doc_id, "", NoJudgment, FALSE,
                                      TRUE, {}, NoSource)
           ELSE /\ UNCHANGED <<archive, save_calls, open_documents>>
                /\ last' = LastOp("force", doc_id, "", NoJudgment, FALSE,
                                  FALSE, {}, NoSource)
        /\ UNCHANGED <<doc_seq, pages>>
    /\ UNCHANGED main_vars

\* folder names an operator may pass as source_sender_name
SourceNames == {"AB", "A&B", "Unknown"}

\* the target takes the completeness flag of the source
MergeExternal_TakesSourceFlag(entry, source_letter, source_doc_id, scans) ==
    [entry EXCEPT
        !.letter_data.content =
            @ \o <<Tok("merged", source_doc_id)>> \o source_letter.content,
        !.letter_data.qr_payloads =
            AppendNewCodes(@, source_letter.qr_payloads),
        !.letter_data.is_information_complete =
            source_letter.is_information_complete,
        !.items_to_save = @ \o scans]

\* the merge of an archived source into an open entry (processor.py:333-348)
MergeExternal(entry, source_letter, source_doc_id, scans) ==
    [entry EXCEPT
        !.letter_data.content =
            @ \o <<Tok("merged", source_doc_id)>> \o source_letter.content,
        !.letter_data.qr_payloads =
            AppendNewCodes(@, source_letter.qr_payloads),
        !.items_to_save = @ \o scans]

\* the early returns of merge_processed_document_into_open_document: the
\* target is not open (processor.py:308-310) or the source has no YAML
\* (processor.py:312-315)
MergeRefused(target_open_doc_id, source_sender_name, source_doc_id) ==
    \/ target_open_doc_id \notin DOMAIN open_documents
    \/ get_letter_details_yaml(archive, source_sender_name, source_doc_id) = <<>>

\* Processor.merge_processed_document_into_open_document
merge_processed_document_into_open_document ==
    /\ \/ /\ { request \in OracleIds \X SourceNames \X (1..MaxPages) :
                  MergeRefused(request[1], request[2], request[3]) } # {}
          /\ UNCHANGED <<archive, open_documents>>
          /\ last' = LastOp("merge_ext", NoId, "",
                            NoJudgment, FALSE, FALSE, {}, NoSource)
       \/ \E target_open_doc_id \in DOMAIN open_documents,
             source_sender_name \in SourceNames,
             source_doc_id \in 1..MaxPages :
            /\ ~MergeRefused(target_open_doc_id, source_sender_name,
                             source_doc_id)
            /\ open_documents' = PutEntry(open_documents,
                    target_open_doc_id,
                    MergeExternal(open_documents[target_open_doc_id],
                        get_letter_details_yaml(archive, source_sender_name,
                                                source_doc_id)[1],
                        source_doc_id,
                        get_letter_original_scans(archive,
                            source_sender_name, source_doc_id)))
            /\ archive' = rmtree(archive,
                                 <<source_sender_name, source_doc_id>>)
            /\ last' = LastOp("merge_ext", target_open_doc_id, "",
                              NoJudgment, FALSE, TRUE, {},
                              <<source_sender_name, source_doc_id>>)
    /\ UNCHANGED <<doc_seq, pages, save_calls>>
    /\ UNCHANGED main_vars

Next ==
    \/ DropPage
    \/ ProcessPage
    \/ flush_open_documents
    \/ force_complete_open_document
    \/ merge_processed_document_into_open_document

Spec == Init /\ [][Next]_vars

\* ---------------------------------------------------------------- failures
\* where save_output may raise: at the creation of the document folder
\* (output.py:63), at the write of the YAML file (output.py:186-189, after
\* the artifacts were copied), at the write of the Markdown file
\* (output.py:231-233, after the YAML file was written)
WritePoints == {"mkdir", "yaml", "markdown"}

\* the archive a save_output that raises at point leaves behind
save_output_raises(fs, letter, original_items, point) ==
    LET key == <<_sanitize_foldername(letter.sender), letter.id>>
        old == Folder(fs, key)
        copied == { original_items[i].name : i \in
                      { j \in 1..Len(original_items) :
                          ItemExists(fs, original_items[j]) } }
    IN  IF point = "mkdir" THEN fs
        ELSE IF point = "yaml"
        THEN WriteFolder(fs, key,
                [old EXCEPT !.original_scans = old.original_scans \cup copied])
        ELSE save_output(fs, letter, original_items)

\* the oracle results for pages without codes and without an explicit
\* multipage mark, whose id field is 0
PlainOracleResults(n) ==
    { oracle \in OracleResults(n) :
        /\ oracle.parsed.id = 0
        /\ oracle.parsed.qr_payloads = <<>>
        /\ ~oracle.parsed.is_multipage_explicit }

\* the entry is deleted before the document is written
LedgerAfterFailedWrite_DeletedFirst(od, id, entry) == DelEntry(od, id)

\* the ledger after a save_output that raised: the del statement comes
\* after the call (processor.py:186-192, 246-252, 281-290), so the entry,
\* as it was handed to save_output, is still there
LedgerAfterFailedWrite(od, id, entry) == PutEntry(od, id, entry)

\* process_document_pages when the save_output it calls raises
ClassifiedWriteFails(qr_payloads, oracle, point) ==
    LET n == Len(pages) + 1
        candidate_page_id == get_new_doc_id(doc_seq)
        items == <<[name |-> n, dir |-> ScanDir]>>
        preprocessed == <<n>>
        llm_response == classify_document(qr_payloads, candidate_page_id, oracle)
        logged == _log_llm_interaction(archive, candidate_page_id,
                                       llm_response.sender)
        existing_doc_id == llm_response.belongs_to_open_doc_id
    IN  /\ doc_seq' = candidate_page_id
        /\ pages' = Append(pages, candidate_page_id)
        /\ save_calls' = save_calls
        /\ IF ContinuesOpen(open_documents, llm_response)
           THEN LET merged == MergePage(open_documents[existing_doc_id],
                                   llm_response, items, preprocessed)
                IN  /\ merged.letter_data.is_information_complete
                    /\ archive' = save_output_raises(logged,
                            merged.letter_data, merged.items_to_save, point)
                    /\ open_documents' = LedgerAfterFailedWrite(
                            open_documents, existing_doc_id, merged)
                    /\ last' = LastOp("page", candidate_page_id,
                            "merge_write_failed", llm_response, ~oracle.ok,
                            FALSE, {}, NoSource)
           ELSE /\ ~OpensNew(llm_response)
                /\ archive' = save_output_raises(logged, llm_response,
                                                 items, point)
                /\ open_documents' = open_documents
                /\ last' = LastOp("page", candidate_page_id,
                        "standalone_write_failed", llm_response, ~oracle.ok,
                        FALSE, {}, NoSource)

\* a page submission with a plain judgment
PlainPage ==
    /\ Len(pages) < MaxPages
    /\ process_document_pages(QrChoices, PlainOracleResults(Len(pages) + 1))
    /\ UNCHANGED main_vars

\* a page submission whose archive write raises
PageWriteFails ==
    /\ Len(pages) < MaxPages
    /\ \E qr_payloads \in QrChoices,
          oracle \in PlainOracleResults(Len(pages) + 1),
          point \in WritePoints :
            ClassifiedWriteFails(qr_payloads, oracle, point)
    /\ UNCHANGED main_vars

\* flush_open_documents when save_output raises for entry bad: the entries
\* before it are archived and deleted, the exception ends the loop
FlushedUntilWriteFails(bad, point) ==
    LET before == { id \in DOMAIN open_documents : id < bad }
        entry == [open_documents[bad] EXCEPT
                    !.letter_data = ForcedComplete(@)]
    IN  /\ archive' = save_output_raises(
                FlushArchive(archive, open_documents, before),
                entry.letter_data, entry.items_to_save, point)
        /\ save_calls' = FlushCalls(save_calls, open_documents, before)
        /\ open_documents' = LedgerAfterFailedWrite(
                FlushLedger(open_documents, before), bad, entry)
        /\ last' = LastOp("flush", bad, "write_failed", NoJudgment, FALSE,
                          FALSE, before, NoSource)
        /\ UNCHANGED <<doc_seq, pages>>

FlushWriteFails ==
    /\ \E bad \in DOMAIN open_documents, point \in WritePoints :
          FlushedUntilWriteFails(bad, point)
    /\ UNCHANGED main_vars

\* force_complete_open_document when save_output raises
ForceWriteFails ==
    /\ \E doc_id \in DOMAIN open_documents, point \in WritePoints :
          LET entry == [open_documents[doc_id] EXCEPT
                          !.letter_data = ForcedComplete(@)]
          IN  /\ archive' = save_output_raises(archive, entry.letter_data,
                                               entry.items_to_save, point)
              /\ open_documents' = LedgerAfterFailedWrite(open_documents,
                                                          doc_id, entry)
              /\ last' = LastOp("force", doc_id, "write_failed", NoJudgment,
                                FALSE, FALSE, {}, NoSource)
    /\ UNCHANGED <<doc_seq, pages, save_calls>>
    /\ UNCHANGED main_vars

\* the number of sources an entry has absorbed
MergedSources(entry) ==
    Cardinality({ i \in 1..Len(entry.letter_data.content) :
                    entry.letter_data.content[i].k = "merged" })

\* merge_processed_document_into_open_document when shutil.rmtree raises:
\* the exception is caught and logged (processor.py:356-358) and the method
\* goes on to return True (processor.py:360)
MergeRmtreeFails ==
    /\ \E target_open_doc_id \in DOMAIN open_documents,
          source_sender_name \in SourceNames, source_doc_id \in 1..MaxPages :
        LET source_yaml_data == get_letter_details_yaml(archive,
                                    source_sender_name, source_doc_id)
        IN  /\ source_yaml_data # <<>>
            /\ MergedSources(open_documents[target_open_doc_id]) < MaxMerged
            /\ open_documents' = PutEntry(open_documents,
                    target_open_doc_id,
                    MergeExternal(open_documents[target_open_doc_id],
                        source_yaml_data[1], source_doc_id,
                        get_letter_original_scans(archive,
                            source_sender_name, source_doc_id)))
            /\ archive' = archive
            /\ last' = LastOp("merge_ext", target_open_doc_id,
                              "rmtree_failed", NoJudgment, FALSE, TRUE, {},
                              <<source_sender_name, source_doc_id>>)
    /\ UNCHANGED <<doc_seq, pages, save_calls>>
    /\ UNCHANGED main_vars

NextWriteFault ==
    \/ PlainPage
    \/ PageWriteFails
    \/ flush_open_documents
    \/ FlushWriteFails
    \/ force_complete_open_document
    \/ ForceWriteFails

\* the Processor when archive writes may fail
SpecWriteFault == Init /\ [][NextWriteFault]_vars

NextRmtreeFault ==
    \/ PlainPage
    \/ flush_open_documents
    \/ merge_processed_document_into_open_document
    \/ MergeRmtreeFails

\* the Processor when the deletion of a merged source's folder may fail
SpecRmtreeFault == Init /\ [][NextRmtreeFault]_vars

\* ---------------------------------------------------------------- code lists
\* code lists the oracle may return: qr_payloads is a List[str]
\* (llm.py:35), which the caller takes as it comes unless it is not a list
\* (llm.py:201-202)
CodeLists == {<<>>, <<"q1">>, <<"q2", "q1">>, <<"q1", "q1">>}

\* the oracle results over these code lists
CodeOracleResults(n) ==
    { [ok |-> TRUE,
       parsed |-> Letter(0, "A&B", Tok("subj", n), "letter", <<Tok("llm", n)>>,
                         q, FALSE, c, b)] :
        q \in CodeLists, c \in BOOLEAN, b \in OracleIds }

\* a page submission whose judgment carries one of these code lists
CodePage ==
    /\ Len(pages) < MaxPages
    /\ process_document_pages(QrChoices, CodeOracleResults(Len(pages) + 1))
    /\ UNCHANGED main_vars

NextCodes ==
    \/ CodePage
    \/ flush_open_documents
    \/ merge_processed_document_into_open_document

\* the Processor over judgments with longer code lists
SpecCodes == Init /\ [][NextCodes]_vars

\* ---------------------------------------------------------------- watcher.py
\* files that may appear in the scan directory
Files == {"B.PDF", "a.pdf", "c.png", "d.txt"}

\* path.suffix.lower(), on the files of the model
suffix_lower(f) ==
    IF f \in {"B.PDF", "a.pdf"} THEN ".pdf"
    ELSE IF f = "c.png" THEN ".png"
    ELSE ".txt"

\* FolderWatcher.allowed_exts
allowed_exts == {".png", ".jpg", ".jpeg", ".tif", ".tiff", ".pdf"}

\* the place of a file in sorted(list(new_files)): upper case sorts first
FileRank(f) ==
    IF f = "B.PDF" THEN 1 ELSE IF f = "a.pdf" THEN 2
    ELSE IF f = "c.png" THEN 3 ELSE 4

RECURSIVE SortedFiles(_)
SortedFiles(S) ==
    IF S = {} THEN <<>>
    ELSE LET m == CHOOSE x \in S : \A y \in S : FileRank(x) <= FileRank(y)
         IN  <<m>> \o SortedFiles(S \ {m})

\* known_files is not subtracted
new_files_AllOnDisk == scan_files

\* new_files = current_files_on_disk - self.known_files
new_files == scan_files \ known_files

\* the queue after scan_for_new_files: _handle_new_file puts a PDF on the
\* queue at once, as a list of one path
ScannedQueue ==
    queue \o SortedFiles({ f \in new_files : suffix_lower(f) = ".pdf" })

\* the sessions after scan_for_new_files: _handle_new_file adds an image to
\* the session of its prefix; nothing in main.py flushes a session
ScannedSessions ==
    sessions \cup { f \in new_files :
                      /\ suffix_lower(f) \in allowed_exts
                      /\ suffix_lower(f) # ".pdf" }

\* FolderWatcher.scan_for_new_files
scan_for_new_files ==
    /\ sessions' = ScannedSessions
    /\ known_files' = known_files \cup new_files

\* ---------------------------------------------------------------- main.py
\* code lists of the pages the main loop is fed in the model
NoCodes == {<<>>}

\* Processor.process_next_item_from_queue on queue q
process_next_item_from_queue(q) ==
    IF q = <<>>
    THEN /\ queue' = q
         /\ handed' = handed
         /\ UNCHANGED <<doc_seq, open_documents, archive, pages, save_calls, last>>
    ELSE /\ queue' = Tail(q)
         /\ handed' = Append(handed, Head(q))
         /\ process_document_pages(NoCodes, PlainOracleResults(Len(pages) + 1))

\* a file appears in the scan directory
FileAppears ==
    /\ pc \in {"loop", "drain"}
    /\ \E f \in Files \ scan_files : scan_files' = scan_files \cup {f}
    /\ UNCHANGED <<doc_seq, open_documents, archive, pages, save_calls, last,
                   known_files, sessions, queue, handed, pc,
                   api_open_documents, api_reply>>

\* one iteration of the loop of main() (main.py:43-60)
main_loop ==
    /\ pc = "loop"
    /\ scan_for_new_files
    /\ process_next_item_from_queue(ScannedQueue)
    /\ UNCHANGED <<scan_files, pc, api_open_documents, api_reply>>

\* Ctrl+C
KeyboardInterrupt ==
    /\ pc = "loop"
    /\ pc' = "drain"
    /\ UNCHANGED <<doc_seq, open_documents, archive, pages, save_calls, last,
                   scan_files, known_files, sessions, queue, handed,
                   api_open_documents, api_reply>>

\* the drain loop is left at once
QueueDrained_Always(q) == TRUE

\* q.empty(), the exit test of the drain loop (main.py:69)
QueueDrained(q) == q = <<>>

\* one iteration of the drain loop of the shutdown sequence (main.py:69-70)
shutdown_drain ==
    /\ pc = "drain"
    /\ ~QueueDrained(queue)
    /\ process_next_item_from_queue(queue)
    /\ UNCHANGED <<scan_files, known_files, sessions, pc,
                   api_open_documents, api_reply>>

\* the end of the shutdown sequence (main.py:73-76)
shutdown_flush ==
    /\ pc = "drain"
    /\ QueueDrained(queue)
    /\ Flushed
    /\ pc' = "done"
    /\ UNCHANGED <<scan_files, known_files, sessions, queue, handed,
                   api_open_documents, api_reply>>

NextMain ==
    \/ FileAppears
    \/ main_loop
    \/ KeyboardInterrupt
    \/ shutdown_drain
    \/ shutdown_flush

\* main(): the loop never stops by itself, and the shutdown sequence runs on
SpecMain ==
    /\ Init /\ [][NextMain]_vars
    /\ WF_vars(main_loop)
    /\ WF_vars(shutdown_drain)
    /\ WF_vars(shutdown_flush)

\* process_document_pages when the text extraction raises: ocr_image is
\* called outside any try (processor.py:95)
ExtractionRaises ==
    /\ pages' = Append(pages, 0)
    /\ last' = LastOp("page", 0, "extract_raised", NoJudgment, FALSE, FALSE,
                      {}, NoSource)
    /\ UNCHANGED <<doc_seq, open_documents, archive, save_calls>>

\* an iteration of the loop of main() in which process_document_pages
\* raises: the only handler around the loop is for KeyboardInterrupt
\* (main.py:42, 62), so the exception ends main()
main_loop_raises ==
    /\ pc = "loop"
    /\ scan_for_new_files
    /\ ScannedQueue # <<>>
    /\ queue' = Tail(ScannedQueue)
    /\ handed' = Append(handed, Head(ScannedQueue))
    /\ \/ ExtractionRaises
       \/ \E oracle \in PlainOracleResults(Len(pages) + 1),
             point \in WritePoints :
               ClassifiedWriteFails(<<>>, oracle, point)
    /\ pc' = "crashed"
    /\ UNCHANGED <<scan_files, api_open_documents, api_reply>>

NextMainFault ==
    \/ FileAppears
    \/ main_loop
    \/ main_loop_raises
    \/ KeyboardInterrupt
    \/ shutdown_drain
    \/ shutdown_flush

\* main() when the processing of a page may raise
SpecMainFault == Init /\ [][NextMainFault]_vars

\* ---------------------------------------------------------------- web_api.py
\* Processor.get_open_documents_summary of a ledger
get_open_documents_summary(od) ==
    { [id |-> doc_id,
       subject |-> od[doc_id].letter_data.subject,
       sender |-> od[doc_id].letter_data.sender,
       type |-> od[doc_id].letter_data.type,
       page_count |-> Len(od[doc_id].items_to_save),
       is_information_complete_llm |->
           od[doc_id].letter_data.is_information_complete,
       is_multipage_explicit_llm |->
           od[doc_id].letter_data.is_multipage_explicit] :
      doc_id \in DOMAIN od }

Reply(op, status, body) == [op |-> op, status |-> status, body |-> body]

\* the ledger the endpoints read: that of processor_instance_api, a
\* Processor of its own (web_api.py:24-28)
ApiLedger == api_open_documents

\* GET /processor/open_documents
api_get_open_documents ==
    /\ api_reply' = Reply("open_documents", 200,
                          get_open_documents_summary(ApiLedger))
    /\ UNCHANGED <<doc_seq, open_documents, archive, pages, save_calls, last,
                   scan_files, known_files, sessions, queue, handed, pc,
                   api_open_documents>>

\* POST /processor/open_documents/{doc_id}/force_complete
api_force_complete ==
    /\ \E doc_id \in OracleIds \ {NoId} :
          IF doc_id \in DOMAIN ApiLedger
          THEN /\ archive' = save_output(archive,
                      ForcedComplete(ApiLedger[doc_id].letter_data),
                      ApiLedger[doc_id].items_to_save)
               /\ api_open_documents' = DelEntry(ApiLedger, doc_id)
               /\ api_reply' = Reply("force_complete", 200, doc_id)
          ELSE /\ UNCHANGED <<archive, api_open_documents>>
               /\ api_reply' = Reply("force_complete", 404, doc_id)
    /\ UNCHANGED <<doc_seq, open_documents, pages, save_calls, last,
                   scan_files, known_files, sessions, queue, handed, pc>>

\* POST /processor/actions/flush_all_open
api_flush_all_open ==
    /\ archive' = FlushArchive(archive, ApiLedger, DOMAIN ApiLedger)
    /\ api_open_documents' = FlushLedger(ApiLedger, DOMAIN ApiLedger)
    /\ api_reply' = Reply("flush_all_open", 200, DOMAIN ApiLedger)
    /\ UNCHANGED <<doc_seq, open_documents, pages, save_calls, last,
                   scan_files, known_files, sessions, queue, handed, pc>>

\* POST /processor/open_documents/{target_open_doc_id}/merge
api_merge ==
    /\ \E target_open_doc_id \in OracleIds \ {NoId},
          source_sender_name \in SourceNames, source_doc_id \in 1..MaxPages :
        LET source_yaml_data == get_letter_details_yaml(archive,
                                    source_sender_name, source_doc_id)
        IN  IF \/ target_open_doc_id \notin DOMAIN ApiLedger
               \/ source_yaml_data = <<>>
            THEN /\ UNCHANGED <<archive, api_open_documents>>
                 /\ api_reply' = Reply("merge", 400, target_open_doc_id)
            ELSE /\ api_open_documents' = PutEntry(ApiLedger,
                        target_open_doc_id,
                        MergeExternal(ApiLedger[target_open_doc_id],
                            source_yaml_data[1], source_doc_id,
                            get_letter_original_scans(archive,
                                source_sender_name, source_doc_id)))
                 /\ archive' = rmtree(archive,
                                      <<source_sender_name, source_doc_id>>)
                 /\ api_reply' = Reply("merge", 200, target_open_doc_id)
    /\ UNCHANGED <<doc_seq, open_documents, pages, save_calls, last,
                   scan_files, known_files, sessions, queue, handed, pc>>

NextOperator ==
    \/ PlainPage
    \/ api_get_open_documents
    \/ api_force_complete
    \/ api_flush_all_open
    \/ api_merge

\* the intake Processor of main() and the operator endpoints of web_api
SpecOperator == Init /\ [][NextOperator]_vars

\* ---------------------------------------------------------------- main.py, startup
\* main() after the watcher and the Processor are constructed, before the
\* test of args.flush (main.py:26-27, processor.py:26-28)
InitStart ==
    /\ doc_seq = 0
    /\ open_documents = <<>>
    /\ archive = <<>>
    /\ pages = <<>>
    /\ save_calls = [i \in OracleIds |-> 0]
    /\ last = LastOp("init", 0, "", NoJudgment, FALSE, TRUE, {}, NoSource)
    /\ scan_files = {}
    /\ known_files = {}
    /\ sessions = {}
    /\ queue = <<>>
    /\ handed = <<>>
    /\ pc = "start"
    /\ api_open_documents = <<>>
    /\ api_reply = NoReply

\* the flush is run by every iteration of the loop as well
startup_flush_InLoop ==
    /\ pc \in {"start", "loop"}
    /\ Flushed
    /\ pc' = "loop"
    /\ UNCHANGED <<scan_files, known_files, sessions, queue, handed,
                   api_open_documents, api_reply>>

\* if args.flush: processor.flush_open_documents() (main.py:33-36)
startup_flush ==
    /\ pc = "start"
    /\ Flushed
    /\ pc' = "loop"
    /\ UNCHANGED <<scan_files, known_files, sessions, queue, handed,
                   api_open_documents, api_reply>>

\* main() started without --flush
startup_plain ==
    /\ pc = "start"
    /\ pc' = "loop"
    /\ UNCHANGED <<doc_seq, open_documents, archive, pages, save_calls, last,
                   scan_files, known_files, sessions, queue, handed,
                   api_open_documents, api_reply>>

NextStart ==
    \/ startup_flush
    \/ startup_plain
    \/ FileAppears
    \/ main_loop
    \/ KeyboardInterrupt
    \/ shutdown_drain
    \/ shutdown_flush

\* main() from the test of args.flush on
SpecStart == InitStart /\ [][NextStart]_vars

\* ---------------------------------------------------------------- vocabulary
Ledger == DOMAIN open_documents

\* the archived documents: the folders that hold a YAML file
Archived(fs) == { key \in DOMAIN fs : fs[key].yaml # <<>> }

Has(content, tok) == \E i \in 1..Len(content) : content[i] = tok

HasKind(content, k) == \E i \in 1..Len(content) : content[i].k = k

\* the step classified a page (an id was consumed)
PageStep == doc_seq' = doc_seq + 1 /\ last'.op = "page"

\* the judgment of the page names an entry that is open before the step
StepContinues == last'.belongs # NoId /\ last'.belongs \in Ledger

\* the accumulated content holds what page n contributed: the content the
\* oracle returned for it or the text the extractor read from it
HoldsPage(content, n) == Has(content, Tok("llm", n)) \/ Has(content, Tok("ocr", n))

\* ---------------------------------------------------------------- C1
\* C1 (as claimed): after a flush-all that ends a run of page submissions,
\* the content of every page that was not dropped is in the accumulated
\* content of exactly one archived document.
C1_NoPageLoss ==
    last.op = "flush" =>
        \A n \in 1..Len(pages) :
            pages[n] # 0 =>
                Cardinality({ key \in Archived(archive) :
                    HoldsPage(archive[key].yaml[1].content, n) }) = 1

\* ---------------------------------------------------------------- C2
\* C2 (as claimed): every entry in the ledger has is_information_complete
\* = false.
C2_AllOpenIncomplete ==
    \A id \in Ledger : ~open_documents[id].letter_data.is_information_complete

\* C2 (amended): an entry in the ledger has is_information_complete = false
\* unless it was opened by an explicit-multipage page judged complete and no
\* page has been merged into it since (it holds the artifacts of one page
\* only); an entry that a page merge leaves complete is not in the ledger.
C2_LedgerInvariant ==
    \A id \in Ledger :
        LET letter == open_documents[id].letter_data
        IN  letter.is_information_complete =>
                /\ letter.is_multipage_explicit
                /\ Len(open_documents[id].preprocessed_ocr_images) = 1

\* a complete entry sits in the ledger after the page that opened it
C2_Witness ==
    /\ last.op = "page" /\ last.branch = "open"
    /\ doc_seq \in Ledger
    /\ open_documents[doc_seq].letter_data.is_information_complete

\* ---------------------------------------------------------------- C3
\* the candidate id of the page whose content opens the letter
OpenerId(letter) ==
    LET first == Head(letter.content)
    IN  IF first.k = "llm" THEN pages[first.p] ELSE letter.id

\* C3: every archived document, and every open entry, carries the candidate
\* id of the page that opened it, is filed under that id, and that id was
\* issued by get_new_doc_id, whatever id the oracle returned and whatever
\* was merged into it.
C3_IdImmutability ==
    /\ \A key \in Archived(archive) :
          LET letter == archive[key].yaml[1]
          IN  /\ letter.id = key[2]
              /\ letter.id \in 1..doc_seq
              /\ OpenerId(letter) = letter.id
    /\ \A id \in Ledger :
          LET letter == open_documents[id].letter_data
          IN  /\ letter.id = id
              /\ letter.id \in 1..doc_seq
              /\ OpenerId(letter) = id

\* an archived document that a page with another candidate id was merged into
C3_Witness ==
    \E key \in Archived(archive) :
        LET letter == archive[key].yaml[1]
        IN  \E i \in 1..Len(letter.content) :
                /\ letter.content[i].k = "break"
                /\ letter.content[i].p # letter.id

\* ---------------------------------------------------------------- C4
\* C4: once a document has been archived under an id, no step puts an entry
\* under that id into the ledger or archives under that id again.
C4_ClosureTerminal ==
    [][ \A id \in OracleIds :
            save_calls[id] > 0 =>
                /\ id \notin Ledger
                /\ id \notin DOMAIN open_documents'
                /\ save_calls'[id] = save_calls[id] ]_vars

\* a page claimed to continue a document that had been archived before
C4_Witness ==
    /\ last.op = "page"
    /\ last.belongs # NoId
    /\ last.belongs < doc_seq
    /\ save_calls[last.belongs] = 1
    /\ last.belongs \notin Ledger

\* ---------------------------------------------------------------- C5
\* the content of the entry the page continues, after the merge
StepMergedContent ==
    open_documents[last'.belongs].letter_data.content
        \o <<Tok("break", doc_seq')>> \o <<Tok("llm", Len(pages'))>>

\* the document of id is archived by the step, once, with this content
StepArchives(id, content) ==
    /\ save_calls'[id] = save_calls[id] + 1
    /\ \E key \in Archived(archive') :
          /\ key[2] = id
          /\ key \notin Archived(archive)
          /\ archive'[key].yaml[1].id = id
          /\ archive'[key].yaml[1].content = content

\* C5 (as claimed): a page whose judgment continues the open document D1 and
\* is complete appends marker and content to D1, and D1 is archived and
\* removed from the ledger in that step.
C5_ContinuationCloses ==
    [][ (PageStep /\ StepContinues /\ last'.complete) =>
            /\ StepArchives(last'.belongs, StepMergedContent)
            /\ last'.belongs \notin DOMAIN open_documents' ]_vars

\* C5 (amended): such a page appends the page-break marker and its content
\* to D1; D1 is archived and removed in that step when D1's
\* is_information_complete was true before the page, and otherwise stays
\* open, unarchived, with the appended content.
C5_ContinuationFound ==
    [][ (PageStep /\ StepContinues /\ last'.complete) =>
            IF open_documents[last'.belongs].letter_data.is_information_complete
            THEN /\ StepArchives(last'.belongs, StepMergedContent)
                 /\ last'.belongs \notin DOMAIN open_documents'
            ELSE /\ last'.belongs \in DOMAIN open_documents'
                 /\ open_documents'[last'.belongs].letter_data.content
                        = StepMergedContent
                 /\ ~open_documents'[last'.belongs].letter_data.is_information_complete
                 /\ save_calls' = save_calls
                 /\ Archived(archive') = Archived(archive) ]_vars

\* a complete page has just been merged into D1 and closed it
C5_Witness ==
    /\ last.op = "page" /\ last.branch = "merge_close" /\ last.complete
    /\ last.belongs \notin Ledger
    /\ \E key \in Archived(archive) :
          /\ key[2] = last.belongs
          /\ archive[key].yaml[1].content =
                <<Tok("llm", 1), Tok("break", doc_seq), Tok("llm", Len(pages))>>

\* ---------------------------------------------------------------- C6
\* C6: a page judged complete and explicitly multi-page that continues no
\* open document opens an entry under its candidate id and archives nothing;
\* an entry leaves the ledger only by a closing merge into it, by flush-all
\* or by force-complete of it, and is archived by that step.
C6_ExplicitMultipageOverride ==
    [][ /\ (PageStep /\ last'.explicit /\ last'.complete /\ ~StepContinues) =>
              /\ doc_seq' \notin Ledger
              /\ doc_seq' \in DOMAIN open_documents'
              /\ open_documents'[doc_seq'].letter_data.content
                    = <<Tok("llm", Len(pages'))>>
              /\ \A id \in Ledger : open_documents'[id] = open_documents[id]
              /\ save_calls' = save_calls
              /\ Archived(archive') = Archived(archive)
        /\ \A id \in Ledger :
              id \notin DOMAIN open_documents' =>
                 /\ \/ last'.op = "flush"
                    \/ last'.op = "force" /\ last'.id = id /\ last'.ret
                    \/ /\ last'.op = "page" /\ last'.branch = "merge_close"
                       /\ last'.belongs = id
                 /\ save_calls'[id] = save_calls[id] + 1 ]_vars

\* the page that opened the newest entry was complete and explicitly
\* multi-page, and nothing is archived under its id
C6_Witness ==
    /\ last.op = "page" /\ last.branch = "open"
    /\ last.complete /\ last.explicit
    /\ doc_seq \in Ledger
    /\ save_calls[doc_seq] = 0

\* ---------------------------------------------------------------- C7
\* C7: a page judged complete, not explicitly multi-page, that continues no
\* open document is archived once under its candidate id in that step and
\* the ledger is untouched; no id is archived twice, and an id that is a key
\* of the ledger has been issued and has not been archived.
C7_Standalone ==
    /\ [][ (PageStep /\ last'.complete /\ ~last'.explicit /\ ~StepContinues) =>
              /\ StepArchives(doc_seq',
                    IF last'.failed THEN <<Tok("err", 0)>>
                    ELSE <<Tok("llm", Len(pages'))>>)
              /\ \A id \in OracleIds \ {doc_seq'} : save_calls'[id] = save_calls[id]
              /\ doc_seq' \notin Ledger
              /\ open_documents' = open_documents ]_vars
    /\ [](\A id \in OracleIds : save_calls[id] <= 1)
    /\ [](\A id \in Ledger : id \in 1..doc_seq /\ save_calls[id] = 0)

\* a classified page has just been archived standalone
C7_Witness ==
    /\ last.op = "page" /\ last.branch = "standalone" /\ ~last.failed
    /\ save_calls[doc_seq] = 1
    /\ doc_seq \notin Ledger
    /\ \E key \in Archived(archive) :
          /\ key[2] = doc_seq
          /\ archive[key].yaml[1].content = <<Tok("llm", Len(pages))>>

\* ---------------------------------------------------------------- C8
\* C8 (as claimed): the document archived for a page whose classification
\* failed has type error, sender "Unknown" and the text extracted from the
\* page as its content.
C8_OracleFailureKeepsText ==
    (last.op = "page" /\ last.failed) =>
        /\ <<"Unknown", doc_seq>> \in Archived(archive)
        /\ LET letter == archive[<<"Unknown", doc_seq>>].yaml[1]
           IN  /\ letter.type = "Error"
               /\ letter.sender = "Unknown"
               /\ letter.content = <<Tok("ocr", Len(pages))>>

\* ---------------------------------------------------------------- C9
\* C9: a page whose classification fails is archived in that step under its
\* candidate id as an error document, nothing else is archived, and the
\* ledger is the same before and after; a following page that continues an
\* entry of that ledger is merged into it.
C9_OracleFailureBypassesLedger ==
    [][ /\ (PageStep /\ last'.failed) =>
              /\ open_documents' = open_documents
              /\ save_calls' = [save_calls EXCEPT ![doc_seq'] = 1]
              /\ Archived(archive') = Archived(archive) \cup {<<"Unknown", doc_seq'>>}
              /\ <<"Unknown", doc_seq'>> \notin Archived(archive)
              /\ archive'[<<"Unknown", doc_seq'>>].yaml[1].id = doc_seq'
              /\ archive'[<<"Unknown", doc_seq'>>].yaml[1].type = "Error"
              /\ \A key \in Archived(archive) : archive'[key] = archive[key]
        /\ (last.op = "page" /\ last.failed /\ PageStep /\ StepContinues) =>
              last'.branch \in {"merge_open", "merge_close"} ]_vars

\* a classification has just failed while a document was open
C9_Witness ==
    /\ last.op = "page" /\ last.failed /\ last.branch = "standalone"
    /\ Ledger # {}
    /\ <<"Unknown", doc_seq>> \in Archived(archive)

\* ---------------------------------------------------------------- C10
\* the step is a call of flush-all
FlushStep == last'.op = "flush" /\ last'.ids = Ledger

\* pages merged one after the other: the opener's content, then for each
\* later page its marker and its content, in the order of the candidate ids
RECURSIVE InArrivalOrder(_, _)
InArrivalOrder(content, after) ==
    \/ content = <<>>
    \/ /\ Len(content) >= 2
       /\ content[1].k = "break" /\ content[1].p > after
       /\ content[2].k = "llm" /\ pages[content[2].p] = content[1].p
       /\ InArrivalOrder(SubSeq(content, 3, Len(content)), content[1].p)

\* C10: flush-all archives every open entry once, as it stands in the ledger
\* but with is_information_complete = true, archives nothing else and leaves
\* the ledger empty; the content of an entry built from pages alone is the
\* pages' content in arrival order.
C10_FlushTerminality ==
    [][ FlushStep =>
          /\ open_documents' = <<>>
          /\ \A id \in Ledger :
                LET letter == open_documents[id].letter_data
                IN  /\ save_calls'[id] = save_calls[id] + 1
                    /\ \E key \in Archived(archive') \ Archived(archive) :
                          /\ key[2] = id
                          /\ archive'[key].yaml[1] =
                                [letter EXCEPT !.is_information_complete = TRUE]
                    /\ ~HasKind(letter.content, "merged") =>
                          /\ letter.content[1] \in {Tok("llm", n) : n \in 1..Len(pages)}
                          /\ pages[letter.content[1].p] = id
                          /\ InArrivalOrder(Tail(letter.content), id)
          /\ \A id \in OracleIds \ Ledger : save_calls'[id] = save_calls[id]
          /\ Cardinality(Archived(archive')) =
                Cardinality(Archived(archive)) + Cardinality(Ledger)
          /\ \A key \in Archived(archive) : archive'[key] = archive[key] ]_vars

\* flush-all has just archived a document of two pages
C10_Witness ==
    /\ last.op = "flush"
    /\ Ledger = {}
    /\ \E key \in Archived(archive) :
          /\ key[2] \in last.ids
          /\ archive[key].yaml[1].is_information_complete
          /\ archive[key].yaml[1].content =
                <<Tok("llm", 1), Tok("break", 2), Tok("llm", 2)>>

\* ---------------------------------------------------------------- C11
\* the step is a call of force-complete
ForceStep == last'.op = "force"

\* C11: force-complete of an id that is not open returns the not-found
\* failure and changes neither the ledger nor the archive; force-complete of
\* an open id returns success, archives that entry with
\* is_information_complete = true together with its artifacts, removes
\* exactly that entry and leaves every other entry as it was.
C11_ForceComplete ==
    [][ ForceStep =>
          /\ last'.ret = (last'.id \in Ledger)
          /\ last'.id \notin Ledger =>
                /\ open_documents' = open_documents
                /\ archive' = archive
                /\ save_calls' = save_calls
          /\ last'.id \in Ledger =>
                LET entry == open_documents[last'.id]
                IN  /\ Ledger' = Ledger \ {last'.id}
                    /\ \A k \in Ledger' : open_documents'[k] = open_documents[k]
                    /\ save_calls' = [save_calls EXCEPT ![last'.id] = @ + 1]
                    /\ \E key \in Archived(archive') \ Archived(archive) :
                          /\ key[2] = last'.id
                          /\ archive'[key].yaml[1].is_information_complete
                          /\ archive'[key].yaml[1] =
                                [entry.letter_data EXCEPT
                                    !.is_information_complete = TRUE]
                          /\ \A key2 \in Archived(archive') :
                                key2 # key => /\ key2 \in Archived(archive)
                                              /\ archive'[key2] = archive[key2] ]_vars

\* force-complete has just archived one of two open entries; the other one
\* is still open
C11_Witness ==
    /\ last.op = "force" /\ last.ret
    /\ Ledger # {} /\ last.id \notin Ledger
    /\ \E key \in Archived(archive) :
          /\ key[2] = last.id
          /\ archive[key].yaml[1].is_information_complete

\* force-complete has just been refused for an id that is not open
C11_WitnessNotFound ==
    /\ last.op = "force" /\ ~last.ret
    /\ Ledger # {} /\ last.id \notin Ledger

\* ---------------------------------------------------------------- C13
\* the entries the step closes: those of a flush-all, that of a successful
\* force-complete, that of a page merge that completes its entry
ClosedBy ==
    Ledger \cap
      (IF last'.op = "flush" THEN last'.ids
       ELSE IF last'.op = "force" /\ last'.ret THEN {last'.id}
       ELSE IF last'.op = "page" /\ last'.branch = "merge_close"
            THEN {last'.belongs}
       ELSE {})

ItemNames(items) == { items[i].name : i \in 1..Len(items) }

Codes(qr) == { qr[i] : i \in 1..Len(qr) }

\* C13 (as claimed): a successful merge-external puts the source's content,
\* codes and original scans into the target entry, and when an entry is
\* closed the archived document holds the content, the codes and the
\* original scans the entry had accumulated, those taken from a deleted
\* source included.
C13_MergeExternalCarries ==
    [][ /\ (last'.op = "merge_ext" /\ last'.ret) =>
              LET S == archive[last'.source]
                  T == open_documents[last'.id]
                  T2 == open_documents'[last'.id]
              IN  /\ last'.source \notin DOMAIN archive'
                  /\ T2.letter_data.content =
                        T.letter_data.content
                          \o <<Tok("merged", last'.source[2])>>
                          \o S.yaml[1].content
                  /\ Codes(S.yaml[1].qr_payloads) \subseteq
                        Codes(T2.letter_data.qr_payloads)
                  /\ S.original_scans \subseteq ItemNames(T2.items_to_save)
        /\ \A id \in ClosedBy :
              \E key \in Archived(archive') :
                  /\ key[2] = id
                  /\ \A i \in 1..Len(open_documents[id].letter_data.content) :
                        archive'[key].yaml[1].content[i] =
                            open_documents[id].letter_data.content[i]
                  /\ Codes(open_documents[id].letter_data.qr_payloads)
                        \subseteq Codes(archive'[key].yaml[1].qr_payloads)
                  /\ ItemNames(open_documents[id].items_to_save)
                        \subseteq archive'[key].original_scans ]_vars

\* ---------------------------------------------------------------- C15
\* the step is a submission whose extraction yields nothing
VoidSubmission ==
    /\ Len(pages') = Len(pages) + 1
    /\ last'.op = "page"
    /\ last'.source = <<"nothing", 0>>

\* C15: a submission with neither text nor codes, or whose file cannot be
\* opened or yields no image, consumes no id, makes no oracle call (no
\* interaction log is written), archives nothing and leaves the ledger
\* unchanged.
C15_DropWithoutEffect ==
    [][ VoidSubmission =>
          /\ doc_seq' = doc_seq
          /\ pages'[Len(pages')] = 0
          /\ open_documents' = open_documents
          /\ archive' = archive
          /\ save_calls' = save_calls ]_vars

\* a page has just been dropped while a document was open and the id
\* counter stood at 1
C15_Witness ==
    /\ last.op = "page" /\ last.branch = "drop"
    /\ last.source = <<"nothing", 0>>
    /\ Len(pages) = 2 /\ pages[2] = 0
    /\ doc_seq = 1 /\ Ledger = {1}

\* ---------------------------------------------------------------- C12
\* the step is a call of merge-external
MergeExternalStep == last'.op = "merge_ext"

\* C12 (as claimed): every merge-external either reports success, has
\* merged the source's content, codes and artifacts into the target entry
\* and has deleted the source's archived folder, or reports failure and has
\* changed neither the ledger nor the archive.
C12_MergeExternalAtomic ==
    [][ MergeExternalStep =>
          \/ /\ last'.ret
             /\ last'.id \in Ledger /\ last'.id \in Ledger'
             /\ last'.source \in Archived(archive)
             /\ LET S == archive[last'.source]
                    T == open_documents[last'.id]
                    T2 == open_documents'[last'.id]
                IN  /\ T2.letter_data.content =
                          T.letter_data.content
                            \o <<Tok("merged", last'.source[2])>>
                            \o S.yaml[1].content
                    /\ Codes(S.yaml[1].qr_payloads) \subseteq
                          Codes(T2.letter_data.qr_payloads)
                    /\ S.original_scans \subseteq ItemNames(T2.items_to_save)
             /\ last'.source \notin DOMAIN archive'
          \/ /\ ~last'.ret
             /\ open_documents' = open_documents
             /\ archive' = archive ]_vars

\* ---------------------------------------------------------------- C18
\* the accumulated content, codes and artifacts of two entries are the same
SameAccumulated(e1, e2) ==
    /\ e1.letter_data.content = e2.letter_data.content
    /\ e1.letter_data.qr_payloads = e2.letter_data.qr_payloads
    /\ e1.items_to_save = e2.items_to_save
    /\ e1.preprocessed_ocr_images = e2.preprocessed_ocr_images

\* C18: when the archive write fails while an open entry is being closed
\* (by flush-all, by force-complete, or by the page merge that completes
\* it), the entry is still in the ledger after the step with all it had
\* accumulated, the page that was being merged included, and the entries
\* flush-all had not reached yet are untouched; a flush-all or
\* force-complete that succeeds afterwards archives the entry with that
\* content and removes it.
C18_WriteFailureKeepsEntry ==
    [][ /\ (last'.op \in {"flush", "force"} /\ last'.branch = "write_failed") =>
              /\ last'.id \in Ledger /\ last'.id \in Ledger'
              /\ SameAccumulated(open_documents'[last'.id],
                                 open_documents[last'.id])
              /\ \A k \in Ledger :
                    k > last'.id => /\ k \in Ledger'
                                    /\ open_documents'[k] = open_documents[k]
        /\ (last'.op = "page" /\ last'.branch = "merge_write_failed") =>
              /\ last'.belongs \in Ledger /\ last'.belongs \in Ledger'
              /\ LET old == open_documents[last'.belongs]
                     new == open_documents'[last'.belongs]
                 IN  /\ new.letter_data.content =
                            old.letter_data.content
                              \o <<Tok("break", doc_seq'),
                                   IF last'.failed THEN Tok("err", 0)
                                   ELSE Tok("llm", Len(pages'))>>
                     /\ Codes(old.letter_data.qr_payloads) \subseteq
                            Codes(new.letter_data.qr_payloads)
                     /\ new.items_to_save = old.items_to_save
                            \o <<[name |-> Len(pages'), dir |-> ScanDir]>>
                     /\ new.preprocessed_ocr_images =
                            old.preprocessed_ocr_images \o <<Len(pages')>>
        /\ (last'.op \in {"flush", "force"} /\ last'.branch = "") =>
              \A id \in ClosedBy :
                 /\ id \notin Ledger'
                 /\ \E key \in Archived(archive') :
                       /\ key[2] = id
                       /\ archive'[key].yaml[1].content =
                             open_documents[id].letter_data.content
                       /\ archive'[key].yaml[1].qr_payloads =
                             open_documents[id].letter_data.qr_payloads
                       /\ ItemNames(open_documents[id].items_to_save)
                             \subseteq archive'[key].original_scans ]_vars

\* the archive write has just failed while a page merge was closing an
\* entry: the entry is in the ledger with the content of both pages, and
\* nothing has been archived
C18_Witness ==
    /\ last.op = "page" /\ last.branch = "merge_write_failed"
    /\ last.belongs \in Ledger
    /\ open_documents[last.belongs].letter_data.content =
          <<Tok("llm", 1), Tok("break", 2), Tok("llm", 2)>>
    /\ Archived(archive) = {}

\* a flush-all whose write failed for the first of two open entries
C18_WitnessFlush ==
    /\ last.op = "flush" /\ last.branch = "write_failed"
    /\ Ledger = {1, 2} /\ last.id = 1

\* ---------------------------------------------------------------- C14
NoDuplicates(qr) ==
    \A i, j \in 1..Len(qr) : i # j => qr[i] # qr[j]

\* new is old with codes appended
Extends(old, new) ==
    /\ Len(old) <= Len(new)
    /\ \A i \in 1..Len(old) : new[i] = old[i]

\* new is the duplicate-free union of old and added, old first
IsCodeUnion(old, added, new) ==
    /\ Extends(old, new)
    /\ Codes(new) = Codes(old) \cup Codes(added)
    /\ NoDuplicates(new)

\* C14 (as claimed): the code list of a document holds every code of every
\* page that contributed to it and no code twice: the page that opens a
\* document gives it its codes, and every page merge and merge-external
\* keeps the codes already there in their order and appends the new ones.
C14_CodeUnion ==
    [][ /\ (PageStep /\ last'.branch = "open") =>
              LET new == open_documents'[doc_seq'].letter_data.qr_payloads
              IN  IsCodeUnion(<<>>, last'.codes, new)
        /\ (PageStep /\ last'.branch = "merge_open") =>
              LET old == open_documents[last'.belongs].letter_data.qr_payloads
                  new == open_documents'[last'.belongs].letter_data.qr_payloads
              IN  IsCodeUnion(old, last'.codes, new)
        /\ (PageStep /\ last'.branch = "merge_close") =>
              LET old == open_documents[last'.belongs].letter_data.qr_payloads
              IN  \E key \in Archived(archive') :
                     /\ key[2] = last'.belongs
                     /\ IsCodeUnion(old, last'.codes,
                                    archive'[key].yaml[1].qr_payloads)
        /\ (last'.op = "merge_ext" /\ last'.ret) =>
              LET old == open_documents[last'.id].letter_data.qr_payloads
                  new == open_documents'[last'.id].letter_data.qr_payloads
              IN  IsCodeUnion(old, archive[last'.source].yaml[1].qr_payloads,
                              new) ]_vars

\* ---------------------------------------------------------------- C16
\* file f has been handed to the processor
Handed(f) == \E i \in 1..Len(handed) : handed[i] = f

\* C16 (as claimed): while the main loop runs, every file with an allowed
\* extension that is in the scan directory is eventually handed to the
\* processor, and every file handed over is one page submission of its own.
C16_FileDelivery ==
    /\ [](Len(pages) = Len(handed))
    /\ \A f \in Files :
          (f \in scan_files /\ suffix_lower(f) \in allowed_exts)
              ~> (Handed(f) \/ pc # "loop")

\* ---------------------------------------------------------------- C17
\* the step hands a page to the processor and its processing fails
PageFailureStep ==
    /\ Len(handed') = Len(handed) + 1
    /\ last'.op = "page"
    /\ last'.branch \in {"extract_raised", "merge_write_failed",
                         "standalone_write_failed"}

\* C17 (as claimed): when the processing of a page fails (the extraction
\* raises or the archive write raises) the main loop is still running after
\* the step, so that the pages enqueued afterwards are dequeued and
\* processed.
C17_PageFailureLocal ==
    [][ PageFailureStep => pc' = "loop" ]_vars

\* ---------------------------------------------------------------- C19
\* the step is a call of the operator endpoint op
ApiStep(op) == api_reply'.op = op /\ pages' = pages

\* C19 (as claimed): the open-documents query of the operator returns every
\* entry of the intake ledger with its id, subject, sender, type, page
\* count and flags; force-complete of an id of the intake ledger succeeds
\* and closes that entry, flush-all leaves the intake ledger empty, and a
\* merge whose target is in the intake ledger is not refused for its target.
C19_OperatorOnIntakeLedger ==
    [][ /\ ApiStep("open_documents") =>
              \A id \in Ledger :
                 [id |-> id,
                  subject |-> open_documents[id].letter_data.subject,
                  sender |-> open_documents[id].letter_data.sender,
                  type |-> open_documents[id].letter_data.type,
                  page_count |-> Len(open_documents[id].items_to_save),
                  is_information_complete_llm |->
                      open_documents[id].letter_data.is_information_complete,
                  is_multipage_explicit_llm |->
                      open_documents[id].letter_data.is_multipage_explicit]
                    \in api_reply'.body
        /\ (ApiStep("force_complete") /\ api_reply'.body \in Ledger) =>
              /\ api_reply'.status = 200
              /\ api_reply'.body \notin Ledger'
              /\ \E key \in Archived(archive') : key[2] = api_reply'.body
        /\ ApiStep("flush_all_open") =>
              /\ Ledger' = {}
              /\ \A id \in Ledger :
                    \E key \in Archived(archive') : key[2] = id
        /\ (ApiStep("merge") /\ api_reply'.body \in Ledger
                /\ api_reply'.status = 400) =>
              \A source_sender_name \in SourceNames,
                 source_doc_id \in 1..MaxPages :
                    get_letter_details_yaml(archive, source_sender_name,
                                            source_doc_id) = <<>> ]_vars

\* ---------------------------------------------------------------- C20
\* page id has reached the archive: as a document of its own or as a page
\* merged into an archived document
InArchive(id) ==
    \E key \in Archived(archive) :
        \/ key[2] = id
        \/ Has(archive[key].yaml[1].content, Tok("break", id))

\* C20: after an interrupt the shutdown sequence hands the queued items to
\* the processor one by one, in queue order, then runs flush-all, and it
\* terminates; when it is done the queue is empty, every file that was put
\* on the queue has been handed to the processor, no document is open, the
\* documents flush-all found open are archived, and so is every page that
\* was classified.
C20_ShutdownLeavesNothingOpen ==
    /\ [][ (pc = "drain" /\ pc' = "drain" /\ handed' # handed) =>
              /\ queue # <<>>
              /\ queue' = Tail(queue)
              /\ handed' = Append(handed, Head(queue)) ]_vars
    /\ [][ (pc = "drain" /\ pc' = "done") =>
              /\ queue = <<>>
              /\ last'.op = "flush" /\ last'.ids = Ledger
              /\ \A id \in Ledger :
                    \E key \in Archived(archive') :
                        /\ key[2] = id
                        /\ archive'[key].yaml[1].content =
                              open_documents[id].letter_data.content ]_vars
    /\ [](pc = "done" =>
              /\ queue = <<>>
              /\ Ledger = {}
              /\ \A f \in known_files : suffix_lower(f) = ".pdf" => Handed(f)
              /\ \A id \in 1..doc_seq : InArchive(id))
    /\ (pc = "drain") ~> (pc = "done")

\* the shutdown sequence is done: it handed both queued files over and its
\* flush-all archived the two documents that were open
C20_Witness ==
    /\ pc = "done"
    /\ handed = <<"B.PDF", "a.pdf">>
    /\ last.op = "flush" /\ last.ids = {1, 2}
    /\ Ledger = {} /\ queue = <<>>
    /\ \A id \in {1, 2} : \E key \in Archived(archive) : key[2] = id

\* ---------------------------------------------------------------- C21
\* C21: a page merged into the open entry X closes X (X is archived with
\* the merged content and removed from the ledger) exactly when X's
\* is_information_complete was true before the merge and the page's
\* judgment is complete; otherwise X stays open, unarchived, with the
\* merged content and is_information_complete = false. The
\* is_multipage_explicit flags of X and of the page play no part.
C21_MergeTieBreak ==
    [][ (PageStep /\ StepContinues) =>
          LET X == open_documents[last'.belongs]
              closes == /\ X.letter_data.is_information_complete
                        /\ last'.complete
          IN  /\ (last'.belongs \notin Ledger') = closes
              /\ closes =>
                    /\ last'.branch = "merge_close"
                    /\ save_calls'[last'.belongs] = save_calls[last'.belongs] + 1
                    /\ \E key \in Archived(archive') \ Archived(archive) :
                          /\ key[2] = last'.belongs
                          /\ archive'[key].yaml[1].content =
                                X.letter_data.content
                                  \o <<Tok("break", doc_seq'),
                                       Tok("llm", Len(pages'))>>
                          /\ archive'[key].yaml[1].is_information_complete
              /\ ~closes =>
                    /\ last'.branch = "merge_open"
                    /\ ~open_documents'[last'.belongs].letter_data
                            .is_information_complete
                    /\ open_documents'[last'.belongs].letter_data.content =
                          X.letter_data.content
                            \o <<Tok("break", doc_seq'),
                                 Tok("llm", Len(pages'))>>
                    /\ save_calls' = save_calls
                    /\ Archived(archive') = Archived(archive) ]_vars

\* a page judged complete has just been merged into an entry that was
\* incomplete: the entry is still open and incomplete
C21_Witness ==
    /\ last.op = "page" /\ last.branch = "merge_open" /\ last.complete
    /\ last.belongs \in Ledger
    /\ ~open_documents[last.belongs].letter_data.is_information_complete
    /\ Archived(archive) = {}

\* ---------------------------------------------------------------- C22
\* the judgment of the page names an id that is not open before the step
StepNamesClosed == last'.belongs # NoId /\ last'.belongs \notin Ledger

\* C22: a page whose judgment names an id that is not in the ledger is
\* merged into nothing: every open entry and every archived document is
\* left as it was, and the page is handled under its own candidate id, as
\* a new open entry when it is incomplete or explicitly multi-page and as
\* a standalone archived document otherwise.
C22_ClosedIdFallsThrough ==
    [][ (PageStep /\ StepNamesClosed) =>
          /\ \A id \in Ledger :
                id \in Ledger' /\ open_documents'[id] = open_documents[id]
          /\ \A key \in Archived(archive) :
                key \in Archived(archive') /\ archive'[key] = archive[key]
          /\ last'.ret
          /\ IF ~last'.complete \/ last'.explicit
             THEN /\ last'.branch = "open"
                  /\ Ledger' = Ledger \cup {doc_seq'}
                  /\ doc_seq' \notin Ledger
                  /\ open_documents'[doc_seq'].letter_data.id = doc_seq'
                  /\ open_documents'[doc_seq'].letter_data.content =
                        <<Tok("llm", Len(pages'))>>
                  /\ Archived(archive') = Archived(archive)
                  /\ save_calls' = save_calls
             ELSE /\ last'.branch = "standalone"
                  /\ Ledger' = Ledger
                  /\ save_calls' = [save_calls EXCEPT ![doc_seq'] = 1]
                  /\ \E key \in Archived(archive') \ Archived(archive) :
                        /\ key[2] = doc_seq'
                        /\ archive'[key].yaml[1].content =
                              <<Tok("llm", Len(pages'))>>
                        /\ Archived(archive') = Archived(archive) \cup {key}
        ]_vars

\* a page that names a document already archived has just opened a
\* document of its own
C22_Witness ==
    /\ last.op = "page" /\ last.branch = "open"
    /\ last.belongs # NoId /\ last.belongs \notin Ledger
    /\ \E key \in Archived(archive) : key[2] = last.belongs
    /\ doc_seq \in Ledger

\* ---------------------------------------------------------------- C23
\* the pages whose content a document built from pages holds, in the order
\* of the content: the content is page, marker, page, marker, page, ...
ContentPages(content) ==
    [i \in 1..((Len(content) + 1) \div 2) |-> content[2 * i - 1].p]

\* content is the content of the page that got id, then, for each page
\* merged later and in the order of arrival, the marker with the page's
\* candidate id and the page's content
PagesInOrder(content, id) ==
    /\ content # <<>>
    /\ content[1].k = "llm"
    /\ content[1].p \in 1..Len(pages)
    /\ pages[content[1].p] = id
    /\ InArrivalOrder(Tail(content), id)

\* C23: in a document that pages P1..Pn contributed to, the content is
\* P1's content followed, for i = 2..n in arrival order, by the page-break
\* marker with Pi's candidate id and Pi's content; the artifact list of the
\* open entry is the pages' artifacts in the same order, and the archived
\* document holds exactly these pages' scans.
C23_ArrivalOrder ==
    /\ \A id \in Ledger :
          LET entry == open_documents[id]
              content == entry.letter_data.content
          IN  ~HasKind(content, "merged") =>
                 /\ PagesInOrder(content, id)
                 /\ entry.items_to_save =
                       [i \in 1..Len(ContentPages(content)) |->
                           [name |-> ContentPages(content)[i], dir |-> ScanDir]]
                 /\ entry.preprocessed_ocr_images = ContentPages(content)
    /\ \A key \in Archived(archive) :
          LET content == archive[key].yaml[1].content
          IN  (~HasKind(content, "merged") /\ ~HasKind(content, "err")) =>
                 /\ PagesInOrder(content, key[2])
                 /\ archive[key].original_scans =
                       { ContentPages(content)[i] :
                           i \in 1..Len(ContentPages(content)) }

\* an open entry that two pages contributed to, in this order
C23_Witness ==
    \E id \in Ledger :
        /\ open_documents[id].letter_data.content =
              <<Tok("llm", 1), Tok("break", 2), Tok("llm", 2)>>
        /\ open_documents[id].items_to_save =
              <<[name |-> 1, dir |-> ScanDir], [name |-> 2, dir |-> ScanDir]>>

\* ---------------------------------------------------------------- C24
\* C24: a merge-external call consumes no id, adds no entry to the ledger
\* and removes none, archives nothing, and leaves the
\* is_information_complete flag of every entry, the target included, as it
\* was; it changes no entry but its target; it succeeds only for a target
\* that is open, and when it fails the ledger and the archive are unchanged.
C24_MergeExternalFrame ==
    [][ MergeExternalStep =>
          /\ doc_seq' = doc_seq
          /\ pages' = pages
          /\ Ledger' = Ledger
          /\ save_calls' = save_calls
          /\ Archived(archive') \subseteq Archived(archive)
          /\ \A id \in Ledger :
                /\ open_documents'[id].letter_data.is_information_complete =
                      open_documents[id].letter_data.is_information_complete
                /\ open_documents'[id].letter_data.id = id
                /\ (~last'.ret \/ id # last'.id) =>
                      open_documents'[id] = open_documents[id]
          /\ last'.ret => last'.id \in Ledger
          /\ ~last'.ret => archive' = archive ]_vars

\* a merge-external has just put an archived document into an open entry,
\* which is still open and incomplete
C24_Witness ==
    /\ last.op = "merge_ext" /\ last.ret
    /\ last.id \in Ledger
    /\ ~open_documents[last.id].letter_data.is_information_complete
    /\ HasKind(open_documents[last.id].letter_data.content, "merged")
    /\ last.source \notin DOMAIN archive

\* ---------------------------------------------------------------- C25
\* C25: an open entry whose is_information_complete is false keeps the
\* flag false for as long as it is open, whatever is merged into it, and it
\* leaves the ledger only by a flush-all or by a force-complete of its own
\* id; a page merge never raises the flag of an entry that stays open.
C25_IncompleteStaysOpen ==
    [][ /\ \A id \in Ledger :
              ~open_documents[id].letter_data.is_information_complete =>
                 /\ id \in Ledger' =>
                       ~open_documents'[id].letter_data.is_information_complete
                 /\ id \notin Ledger' =>
                       \/ last'.op = "flush"
                       \/ last'.op = "force" /\ last'.id = id
        /\ PageStep =>
              \A id \in Ledger \cap Ledger' :
                 open_documents'[id].letter_data.is_information_complete =>
                    open_documents[id].letter_data.is_information_complete
      ]_vars

\* an entry that was opened for its incomplete first page alone has just
\* taken a page that reported complete information, and is still open
C25_Witness ==
    /\ last.op = "page" /\ last.branch = "merge_open"
    /\ last.complete /\ ~last.explicit
    /\ last.belongs \in Ledger
    /\ ~open_documents[last.belongs].letter_data.is_multipage_explicit
    /\ ~open_documents[last.belongs].letter_data.is_information_complete
    /\ HasKind(open_documents[last.belongs].letter_data.content, "break")

\* ---------------------------------------------------------------- C26
\* the ledger ids whose entry a step inserts, removes or changes
ModifiedEntries ==
    { id \in Ledger \cup Ledger' :
         \/ id \notin Ledger
         \/ id \notin Ledger'
         \/ open_documents'[id] # open_documents[id] }

\* the letter with the three fields a merge may change blanked
OpeningValues(letter) ==
    [letter EXCEPT !.content = <<>>, !.qr_payloads = <<>>,
                   !.is_information_complete = FALSE]

ClassifiedPages == { i \in 1..Len(pages) : pages[i] # NoId }

\* C27: the candidate ids given out are pairwise distinct, doc_seq is the
\* number of submissions that reached classification (dropped ones do not
\* count), every ledger key is one of the ids given out; and every
\* classified page, one that merges into an open entry included, takes the
\* next id, which is neither a ledger key nor an id archived under before, so
\* that an insert into the ledger never overwrites an entry.
C27_IdAccounting ==
    /\ [](/\ \A i, j \in ClassifiedPages : pages[i] = pages[j] => i = j
          /\ doc_seq = Cardinality(ClassifiedPages)
          /\ Ledger \subseteq { pages[i] : i \in ClassifiedPages })
    /\ [][ (last' # last /\ last'.op = "page" /\ last'.branch # "drop") =>
             /\ doc_seq' = doc_seq + 1
             /\ last'.id = doc_seq'
             /\ pages' = Append(pages, last'.id)
             /\ last'.id \notin Ledger
             /\ save_calls[last'.id] = 0
             /\ last'.branch = "open" =>
                   Ledger' = Ledger \cup {last'.id} ]_vars

\* a page has just been merged into an open entry and has used up an id of
\* its own, under which nothing is open
C27_Witness ==
    /\ last.op = "page" /\ last.branch = "merge_open"
    /\ last.id = doc_seq
    /\ last.id # last.belongs
    /\ last.id \notin Ledger
    /\ pages[Len(pages)] = last.id
    /\ doc_seq = Cardinality(ClassifiedPages)

\* ---------------------------------------------------------------- C28
\* the sender folders of the output directory (get_all_senders)
SenderFolders == { key[1] : key \in DOMAIN archive }

\* C28 (as claimed): every document folder listed under a sender has the id
\* of a document that the writer archived; the id of a document that is
\* still open is not listed, nor is the candidate id of a page that was
\* merged into another document.
C28_ListingOnlyArchived ==
    \A sender \in SenderFolders :
        LET listed == get_letters_by_sender(archive, sender)
        IN  \A i \in 1..Len(listed) :
                /\ save_calls[listed[i]] > 0
                /\ listed[i] \notin Ledger

\* ---------------------------------------------------------------- C29
\* how many times file f has been put on the queue: the items still queued
\* and the items taken from the queue
Enqueued(f) ==
    LET put == handed \o queue
    IN  Cardinality({ i \in 1..Len(put) : put[i] = f })

\* C29: no file is put on the queue more than once, however many scans
\* run; a file that was enqueued or added to a session is in known_files
\* and has an allowed extension, and a file with another extension is never
\* enqueued; a scan records every file of the scan directory in known_files,
\* nothing leaves known_files, and a file in known_files is not handled
\* again.
C29_EnqueuedOnce ==
    /\ [](\A f \in Files :
            /\ Enqueued(f) <= 1
            /\ (Enqueued(f) > 0 \/ f \in sessions) =>
                  /\ f \in known_files
                  /\ suffix_lower(f) \in allowed_exts)
    /\ [][ /\ known_files \subseteq known_files'
           /\ known_files' # known_files =>
                 known_files' = known_files \cup scan_files
           /\ \A f \in known_files :
                 /\ Enqueued(f)' = Enqueued(f)
                 /\ (f \in sessions') = (f \in sessions) ]_vars

\* both PDF files were enqueued and handed over, the second one by an
\* iteration that scanned the directory with the first one still in it, and
\* the file with the disallowed extension is recorded but was not enqueued
C29_Witness ==
    /\ handed = <<"B.PDF", "a.pdf">>
    /\ queue = <<>>
    /\ {"B.PDF", "a.pdf", "d.txt"} \subseteq scan_files
    /\ "d.txt" \in known_files
    /\ Enqueued("d.txt") = 0
    /\ pc = "loop"

\* ---------------------------------------------------------------- C30
\* the step is the flush that main() runs for --flush before its loop
StartupFlushStep == pc = "start" /\ pc' = "loop" /\ last'.op = "flush"

\* C30: before main() enters its loop no page has been processed and the
\* ledger and the archive are empty; the flush that --flush runs there
\* archives nothing and changes nothing of the Processor, the watcher or
\* the queue; and in the process of main() an entry leaves the ledger only
\* by the merge of a page that closes it or by the flush of the shutdown
\* sequence, and nothing but these and a standalone page archive a document.
C30_StartupFlushEmpty ==
    /\ [](pc = "start" =>
            /\ pages = <<>> /\ doc_seq = 0
            /\ Ledger = {} /\ archive = <<>>
            /\ queue = <<>> /\ handed = <<>>)
    /\ [][ /\ StartupFlushStep =>
                /\ last'.ids = {}
                /\ UNCHANGED <<doc_seq, open_documents, archive, pages,
                               save_calls, scan_files, known_files, sessions,
                               queue, handed>>
           /\ \A id \in Ledger :
                 id \notin Ledger' =>
                    \/ /\ last'.op = "page" /\ last'.branch = "merge_close"
                       /\ last'.belongs = id
                    \/ /\ last'.op = "flush" /\ id \in last'.ids
                       /\ pc = "drain" /\ pc' = "done"
           /\ Archived(archive') # Archived(archive) =>
                 \/ last'.op = "page" /\ Len(pages') = Len(pages) + 1
                 \/ last'.op = "flush" /\ pc = "drain" /\ pc' = "done"
         ]_vars

\* main() was started with --flush and has just run the flush
C30_Witness ==
    /\ pc = "loop"
    /\ last.op = "flush" /\ last.ids = {}
    /\ pages = <<>> /\ Ledger = {} /\ archive = <<>>
    /\ save_calls = [i \in OracleIds |-> 0]

====
